---- MODULE Spec2Model ----
(***************************************************************************)
(* Model of the sevDesk duplicate-transaction tool                         *)
(* (src/sevdesk-invoicer/sevdesk_dedup/__init__.py).                       *)
(*                                                                         *)
(* One run of main() is a state machine: account setup, transaction fetch, *)
(* grouping by (date, amount), canonical selection and classification,     *)
(* and the confirm-then-delete gate.  Strings are tuples of one-character  *)
(* strings so that parsing and pattern matching are computed.              *)
(*                                                                         *)
(* The Wise importer                                                       *)
(* (src/sevdesk-invoicer/sevdesk_wise_importer/__init__.py) is a second    *)
(* state machine over the same remote service: one step per CSV record.    *)
(***************************************************************************)
EXTENDS Integers, Sequences, FiniteSets, TLC

\* ------------------------------------------------------------------------
\* Bounds of the model
\* ------------------------------------------------------------------------
\* longest transaction list a run fetches
MaxTx == 3
\* longest transaction list handed to the grouping function on its own
MaxGroupTx == 3

\* longest list planned and executed when the order of the plan is examined
MaxOrderTx == 4

\* most transactions a remote account holds when the paginated fetch is
\* examined on its own: one more than a full page
MaxLedgerLen == 101

\* most CSV records one run of the importer reads
MaxRecords == 2

\* most CSV records read over all the runs that share one state file
MaxRunRecords == 2

\* ------------------------------------------------------------------------
\* Program constants
\* ------------------------------------------------------------------------
TRANSACTION_FETCH_LIMIT == 100

\* ------------------------------------------------------------------------
\* Characters and strings
\* ------------------------------------------------------------------------
Digits == {"0", "1", "2", "3", "4", "5", "6", "7", "8", "9"}

UpperSeq == <<"A", "B", "C", "D", "E", "F", "G", "H", "I", "J", "K", "L", "M",
              "N", "O", "P", "Q", "R", "S", "T", "U", "V", "W", "X", "Y", "Z">>

LowerSeq == <<"a", "b", "c", "d", "e", "f", "g", "h", "i", "j", "k", "l", "m",
              "n", "o", "p", "q", "r", "s", "t", "u", "v", "w", "x", "y", "z">>

Upper == {UpperSeq[i] : i \in 1..26}

Whitespace == {" "}

DigitValue(c) ==
  CASE c = "0" -> 0 [] c = "1" -> 1 [] c = "2" -> 2 [] c = "3" -> 3
    [] c = "4" -> 4 [] c = "5" -> 5 [] c = "6" -> 6 [] c = "7" -> 7
    [] c = "8" -> 8 [] c = "9" -> 9

\* the characters of the strings the model works with
Chars(str) ==
  CASE str = "" -> <<>>
    [] str = "None" -> <<"N", "o", "n", "e">>
    [] str = "Card transaction of 42.00 (EUR)" -> <<"C", "a", "r", "d", " ", "t", "r", "a", "n", "s", "a", "c", "t", "i", "o", "n", " ", "o", "f", " ", "4", "2", ".", "0", "0", " ", "(", "E", "U", "R", ")">>
    [] str = "Rent" -> <<"R", "e", "n", "t">>
    [] str = "-42.00" -> <<"-", "4", "2", ".", "0", "0">>
    [] str = "9.5" -> <<"9", ".", "5">>
    [] str = "1.0" -> <<"1", ".", "0">>
    [] str = "1.00" -> <<"1", ".", "0", "0">>
    [] str = "2.5" -> <<"2", ".", "5">>
    [] str = "x" -> <<"x">>
    [] str = " Yes" -> <<" ", "Y", "e", "s">>
    [] str = "No" -> <<"N", "o">>
    [] str = "ok" -> <<"o", "k">>
    [] str = "y" -> <<"y">>
    [] str = " " -> <<" ">>
    [] str = "oy" -> <<"o", "y">>
    [] str = "nay" -> <<"n", "a", "y">>

\* length of the longest run of characters of class cls starting at s[p]
RECURSIVE RunLen(_, _, _)
RunLen(s, p, cls) ==
  IF p > Len(s) \/ s[p] \notin cls THEN 0 ELSE 1 + RunLen(s, p + 1, cls)

\* does the literal lit occur in s at position p
LitAt(s, p, lit) ==
  /\ p + Len(lit) - 1 <= Len(s)
  /\ \A k \in 1..Len(lit) : s[p + k - 1] = lit[k]

\* ------------------------------------------------------------------------
\* The card-settlement pattern  r"Card transaction of \d+\.\d+ \([A-Z]+\)"
\* ------------------------------------------------------------------------
CardLiteral == <<"C", "a", "r", "d", " ", "t", "r", "a", "n", "s", "a", "c",
                 "t", "i", "o", "n", " ", "o", "f", " ">>

\* variant: the pattern without the decimal part of the amount,
\* r"Card transaction of \d+ \([A-Z]+\)"
PatternAtInteger(s, p) ==
  LET a  == p + Len(CardLiteral)
      n1 == RunLen(s, a, Digits)
      c  == a + n1
      n3 == RunLen(s, c + 2, Upper)
  IN  /\ LitAt(s, p, CardLiteral)
      /\ n1 >= 1
      /\ LitAt(s, c, <<" ", "(">>)
      /\ n3 >= 1
      /\ LitAt(s, c + 2 + n3, <<")">>)

\* the pattern matched with its left end at position p of s
PatternAt(s, p) ==
  LET a  == p + Len(CardLiteral)
      n1 == RunLen(s, a, Digits)
      b  == a + n1
      n2 == RunLen(s, b + 1, Digits)
      c  == b + 1 + n2
      n3 == RunLen(s, c + 2, Upper)
      d  == c + 2 + n3
  IN  /\ LitAt(s, p, CardLiteral)
      /\ n1 >= 1
      /\ LitAt(s, b, <<".">>)
      /\ n2 >= 1
      /\ LitAt(s, c, <<" ", "(">>)
      /\ n3 >= 1
      /\ LitAt(s, d, <<")">>)

\* re.search(pattern, purpose_str): a match anywhere in the string
re_search(str) == \E p \in 1..Len(Chars(str)) : PatternAt(Chars(str), p)

\* ------------------------------------------------------------------------
\* Transactions as the remote ledger returns them
\* ------------------------------------------------------------------------
\* entry_date: Unset, a string fromisoformat rejects, or an ISO timestamp
UnsetDate == [kind |-> "unset",   day |-> 0, time |-> 0]
InvalidDate == [kind |-> "invalid", day |-> 0, time |-> 0]
IsoDate(d, t) == [kind |-> "iso", day |-> d, time |-> t]

\* amount: Unset, or the text str(tx.amount) yields
UnsetAmount == [kind |-> "unset", text |-> ""]
AmountText(s) == [kind |-> "text", text |-> s]

\* paymt_purpose: None, or a string
NonePurpose == [kind |-> "none", text |-> ""]
Purpose(s) == [kind |-> "str", text |-> s]

\* the id the ledger gave the record fetched at position i: unique within
\* the account, and not ordered like the fetch order
\* the UNSET object in the place of a creation timestamp; timestamps are
\* positive
UNSET == 0

TxId(i) == 100 - i

Tx(i, e, a, c, p) ==
  [id |-> TxId(i), entry_date |-> e, amount |-> a, create |-> c, paymt_purpose |-> p]

\* ------------------------------------------------------------------------
\* Parsing, as find_duplicate_transactions does it
\* ------------------------------------------------------------------------
\* value of a digit string, most significant digit first
RECURSIVE DigitsValue(_)
DigitsValue(s) ==
  IF s = <<>> THEN 0
  ELSE 10 * DigitsValue(SubSeq(s, 1, Len(s) - 1)) + DigitValue(s[Len(s)])

\* num / 10^exp without trailing zeros of the fraction
RECURSIVE Normalise(_, _)
Normalise(num, exp) ==
  IF exp > 0 /\ num % 10 = 0 THEN Normalise(num \div 10, exp - 1)
  ELSE <<num, exp>>

\* float(str(tx.amount)): [sign] digits [ "." digits ], else ValueError.
\* The value is the exact decimal <<numerator, decimal places>>.
float(str) ==
  LET s    == Chars(str)
      neg  == Len(s) >= 1 /\ s[1] = "-"
      body == IF Len(s) >= 1 /\ s[1] \in {"-", "+"} THEN Tail(s) ELSE s
      n1   == RunLen(body, 1, Digits)
      dot  == n1 + 1 <= Len(body) /\ body[n1 + 1] = "."
      n2   == IF dot THEN RunLen(body, n1 + 2, Digits) ELSE 0
      used == n1 + (IF dot THEN 1 + n2 ELSE 0)
      mag  == DigitsValue(SubSeq(body, 1, n1) \o SubSeq(body, n1 + 2, n1 + 1 + n2))
      v    == Normalise(mag, n2)
  IN  IF n1 + n2 >= 1 /\ used = Len(body)
      THEN [ok |-> TRUE, val |-> <<(IF neg THEN 0 - v[1] ELSE v[1]), v[2]>>]
      ELSE [ok |-> FALSE, val |-> <<0, 0>>]

\* variant: the key keeps the time of day (no .date())
fromisoformat_datetime(e) ==
  IF e.kind = "iso" THEN [ok |-> TRUE, val |-> 10 * e.day + e.time]
  ELSE [ok |-> FALSE, val |-> 0]

\* datetime.datetime.fromisoformat(str(tx.entry_date)).date()
fromisoformat_date(e) ==
  IF e.kind = "iso" THEN [ok |-> TRUE, val |-> e.day]
  ELSE [ok |-> FALSE, val |-> 0]

\* ------------------------------------------------------------------------
\* find_duplicate_transactions
\* ------------------------------------------------------------------------
\* A group is [key |-> <<date, amount>>, txs |-> positions in fetch order];
\* the dict is the sequence of its groups in insertion order.

\* position of key in the dict, 0 when absent
KeyIndex(grouped, key) ==
  IF \E g \in 1..Len(grouped) : grouped[g].key = key
  THEN CHOOSE g \in 1..Len(grouped) : grouped[g].key = key
  ELSE 0

\* grouped_transactions[key].append(tx)
DictAppend(grouped, key, i) ==
  LET g == KeyIndex(grouped, key)
  IN  IF g = 0 THEN Append(grouped, [key |-> key, txs |-> <<i>>])
      ELSE [grouped EXCEPT ![g].txs = Append(@, i)]

\* variant: a record that fails to parse is dropped without being counted
GroupStepUncounted(txs, i, acc) ==
  LET tx == txs[i]
      d  == fromisoformat_date(tx.entry_date)
      a  == float(tx.amount.text)
  IN  IF tx.entry_date.kind = "unset" \/ tx.amount.kind = "unset"
      THEN [acc EXCEPT !.skipped = @ + 1]
      ELSE IF ~d.ok \/ ~a.ok
      THEN acc
      ELSE [acc EXCEPT !.grouped = DictAppend(@, <<d.val, a.val>>, i)]

\* one pass of the for loop over transaction i
GroupStep(txs, i, acc) ==
  LET tx == txs[i]
      d  == fromisoformat_date(tx.entry_date)
      a  == float(tx.amount.text)
  IN  IF tx.entry_date.kind = "unset" \/ tx.amount.kind = "unset"
      THEN [acc EXCEPT !.skipped = @ + 1]
      ELSE IF ~d.ok \/ ~a.ok
      THEN [acc EXCEPT !.skipped = @ + 1]
      ELSE [acc EXCEPT !.grouped = DictAppend(@, <<d.val, a.val>>, i)]

RECURSIVE GroupLoop(_, _)
GroupLoop(txs, n) ==
  IF n = 0 THEN [grouped |-> <<>>, skipped |-> 0]
  ELSE GroupStep(txs, n, GroupLoop(txs, n - 1))

\* keep the groups with more than one transaction
potential_duplicates(grouped) == SelectSeq(grouped, LAMBDA g : Len(g.txs) > 1)

find_duplicate_transactions(txs) ==
  LET r == GroupLoop(txs, Len(txs))
  IN  [groups |-> potential_duplicates(r.grouped), skipped |-> r.skipped]

\* ------------------------------------------------------------------------
\* Canonical selection and classification (the loop of main)
\* ------------------------------------------------------------------------
\* str(tx.paymt_purpose)
str_purpose(p) == IF p.kind = "none" THEN "None" ELSE p.text

\* variant: a record created at the same time replaces the earliest one
CreatedBeforeOrSame(txs, i, e) == txs[i].create <= txs[e].create

\* is transaction i created before the earliest one found so far
CreatedBefore(txs, i, e) == txs[i].create < txs[e].create

\* the first loop: earliest_tx after the first k members of the group (0: None)
RECURSIVE EarliestLoop(_, _, _)
EarliestLoop(txs, members, k) ==
  IF k = 0 THEN 0
  ELSE LET e == EarliestLoop(txs, members, k - 1)
           i == members[k]
       IN  IF e = 0 \/ CreatedBefore(txs, i, e) THEN i ELSE e

earliest_tx(txs, members) == EarliestLoop(txs, members, Len(members))

\* variant: records created at the same time are considered as well
ConsideredAlsoWhenSame(txs, i, e) == txs[i].create >= txs[e].create

\* the guard of the second loop: only records created after the earliest
ConsideredForDeletion(txs, i, e) == txs[i].create > txs[e].create

\* the if branch: the purpose holds a card-settlement description
CardRule(txs, i) == re_search(str_purpose(txs[i].paymt_purpose))

\* variant: any record of the group counts as having the same purpose
PurposeRuleAlways(txs, i, e) == TRUE

\* the elif branch: same purpose as the earliest record
PurposeRule(txs, i, e) == txs[i].paymt_purpose = txs[e].paymt_purpose

\* is transaction i appended to transactions_to_delete_ids
Targeted(txs, i, e) ==
  /\ ConsideredForDeletion(txs, i, e)
  /\ (CardRule(txs, i) \/ PurposeRule(txs, i, e))

\* variant: a targeted id is put in front of the list
RECURSIVE ClassifyLoopPrepend(_, _, _, _, _)
ClassifyLoopPrepend(txs, members, e, k, ids) ==
  IF k = 0 THEN ids
  ELSE LET before == ClassifyLoopPrepend(txs, members, e, k - 1, ids)
           i      == members[k]
       IN  IF Targeted(txs, i, e) THEN <<txs[i].id>> \o before ELSE before

\* the second loop over the first k members of one group
RECURSIVE ClassifyLoop(_, _, _, _, _)
ClassifyLoop(txs, members, e, k, ids) ==
  IF k = 0 THEN ids
  ELSE LET before == ClassifyLoop(txs, members, e, k - 1, ids)
           i      == members[k]
       IN  IF Targeted(txs, i, e) THEN Append(before, txs[i].id) ELSE before

\* the loop over duplicate_groups.items(), first g groups
RECURSIVE PlanLoop(_, _, _)
PlanLoop(txs, groups, g) ==
  IF g = 0 THEN [earliest |-> <<>>, ids |-> <<>>]
  ELSE LET before  == PlanLoop(txs, groups, g - 1)
           members == groups[g].txs
           e       == earliest_tx(txs, members)
       IN  [earliest |-> Append(before.earliest, e),
            ids      |-> ClassifyLoop(txs, members, e, Len(members), before.ids)]

\* tx.create < earliest_tx.create and tx.create > earliest_tx.create raise
\* TypeError when a side is UNSET, which defines no ordering
CompareRaises(txs, i, e) == txs[i].create = UNSET \/ txs[e].create = UNSET

\* does the first loop raise within the first k members of the group
RECURSIVE EarliestRaises(_, _, _)
EarliestRaises(txs, members, k) ==
  IF k <= 1 THEN FALSE
  ELSE \/ EarliestRaises(txs, members, k - 1)
       \/ CompareRaises(txs, members[k], EarliestLoop(txs, members, k - 1))

\* does one of the two loops over the group raise
GroupRaises(txs, members) ==
  \/ EarliestRaises(txs, members, Len(members))
  \/ \E k \in 1..Len(members) :
       CompareRaises(txs, members[k], earliest_tx(txs, members))

\* ------------------------------------------------------------------------
\* ask_for_confirmation
\* ------------------------------------------------------------------------
lower_char(c) ==
  IF c \in Upper THEN LowerSeq[CHOOSE k \in 1..26 : UpperSeq[k] = c] ELSE c

lower(s) == [k \in 1..Len(s) |-> lower_char(s[k])]

RECURSIVE lstrip(_)
lstrip(s) == IF s # <<>> /\ Head(s) \in Whitespace THEN lstrip(Tail(s)) ELSE s

RECURSIVE rstrip(_)
rstrip(s) ==
  IF s # <<>> /\ s[Len(s)] \in Whitespace THEN rstrip(SubSeq(s, 1, Len(s) - 1)) ELSE s

strip(s) == rstrip(lstrip(s))

\* variant: the character may stand anywhere in the string
startswith_anywhere(s, c) == \E k \in 1..Len(s) : s[k] = c

startswith(s, c) == s # <<>> /\ Head(s) = c

\* variant: an empty line counts as yes
AnswerDefaultYes(line) ==
  LET response == strip(lower(Chars(line)))
  IN  IF startswith(response, "y") \/ response = <<>> THEN "yes"
      ELSE IF startswith(response, "n") THEN "no"
      ELSE "again"

\* the outcome of one pass of the prompt loop on one line of input
Answer(line) ==
  LET response == strip(lower(Chars(line)))
  IN  IF startswith(response, "y") THEN "yes"
      ELSE IF startswith(response, "n") \/ response = <<>> THEN "no"
      ELSE "again"

\* ------------------------------------------------------------------------
\* get_all_account_transactions
\* ------------------------------------------------------------------------
\* the page the ledger returns at an offset when it serves pageSize records
Page(ledger, offset, pageSize) ==
  SubSeq(ledger, offset + 1,
         IF offset + pageSize < Len(ledger) THEN offset + pageSize ELSE Len(ledger))

\* the while loop from an offset: all records gathered and the calls made
RECURSIVE FetchLoop(_, _, _)
FetchLoop(ledger, offset, pageSize) ==
  LET objects == Page(ledger, offset, pageSize)
  IN  IF objects = <<>> THEN [txs |-> <<>>, calls |-> 1]
      ELSE IF Len(objects) < TRANSACTION_FETCH_LIMIT
      THEN [txs |-> objects, calls |-> 1]
      ELSE LET rest == FetchLoop(ledger, offset + Len(objects), pageSize)
           IN  [txs |-> objects \o rest.txs, calls |-> 1 + rest.calls]

get_all_account_transactions(ledger, pageSize) == FetchLoop(ledger, 0, pageSize)

\* ------------------------------------------------------------------------
\* Inputs
\* ------------------------------------------------------------------------
CardPurpose == Purpose("Card transaction of 42.00 (EUR)")
RentPurpose == Purpose("Rent")
EmptyPurpose == Purpose("")

\* creation timestamps of the records of a ledger
CreateTimes == 1..2

\* what the ledger of a run can hold: records that parse, two keys
LedgerBodies ==
  [entry_date : {IsoDate(1, 0)},
   amount : {AmountText("-42.00"), AmountText("9.5")},
   create : CreateTimes,
   paymt_purpose : {CardPurpose, RentPurpose, EmptyPurpose}]

\* the ledger whose record at position i is f[i] with the id of position i
LedgerOf(f, n) ==
  [i \in 1..n |-> Tx(i, f[i].entry_date, f[i].amount, f[i].create, f[i].paymt_purpose)]

\* the page size the remote service applies
PageSizes == {TRANSACTION_FETCH_LIMIT}

\* the lines the operator may type at the prompt
Lines == {" Yes", "No", "", "ok"}

\* the lines typed when the prompt is examined on its own
PromptLines == Lines \cup {"y", " ", "oy", "nay"}

\* what the grouping function is handed on its own: dates and amounts that
\* are unset, unparsable, equal up to time of day or formatting, or different
GroupAmounts ==
  {UnsetAmount, AmountText("x"), AmountText("1.0"), AmountText("1.00"), AmountText("2.5")}

\* a missing or unparsable date is paired with a good and a missing amount
GroupBodies ==
  ({IsoDate(1, 0), IsoDate(1, 1), IsoDate(2, 0)} \X GroupAmounts)
    \cup ({UnsetDate, InvalidDate} \X {AmountText("1.0"), UnsetAmount})

\* creation times and purposes of the records handed to the grouping function
GroupCreate(v, i) == IF v = 1 THEN 1 ELSE MaxGroupTx + 2 - i

GroupPurpose(v, i) ==
  IF v = 1 \/ i > 2 THEN RentPurpose ELSE IF i = 1 THEN CardPurpose ELSE EmptyPurpose

\* the list whose record at position i has the date and amount f[i]
GroupListOf(f, v, n) ==
  [i \in 1..n |-> Tx(i, f[i][1], f[i][2], GroupCreate(v, i), GroupPurpose(v, i))]

\* ------------------------------------------------------------------------
\* State of one run of main()
\* ------------------------------------------------------------------------
VARIABLES
  pc,                          \* position in main()
  dry_run,                     \* args.dry_run
  accounts_by_name,            \* the target name is in sevdesk_accounts_by_name
  account_created,             \* this run created the account
  transactions,                \* the fetched transactions
  duplicate_groups,            \* find_duplicate_transactions' result
  skipped_count,               \* its skipped_count
  earliest,                    \* earliest_tx of each group, by group position
  transactions_to_delete_ids,  \* the deletion plan
  gate,                        \* the execution gate's states so far
  line_read,                   \* the last line ask_for_confirmation read
  next_delete,                 \* position of the deletion loop in the plan
  deleted_count,
  failed_count,
  calls,                       \* remote calls issued so far
  exit_code,                   \* -1 while running
  remote_ledger,               \* the transactions the remote account holds
  remote_page_size,            \* how many records the remote serves per call
  processed,                   \* CSV records the importer has read
  import_state,                \* the importer's imported_transactions set
  state_file,                  \* the import-state file
  cache,                       \* the importer's Accounts.cache
  remote_accounts,             \* names of the remote check accounts, by id
  row                          \* the CSV record the loop has read and not yet
                               \* passed to import_record

vars == <<pc, dry_run, accounts_by_name, account_created, transactions,
          duplicate_groups, skipped_count, earliest, transactions_to_delete_ids,
          gate, line_read, next_delete, deleted_count, failed_count, calls,
          exit_code, remote_ledger, remote_page_size, processed, import_state,
          state_file, cache, remote_accounts, row>>

\* the variables of the paginated fetch taken on its own
fetch_vars == <<remote_ledger, remote_page_size>>

\* the variables of the Wise importer
wise_vars ==
  <<processed, import_state, state_file, cache, remote_accounts, row>>

\* no record is waiting to be imported
NoRow ==
  [ID |-> "", Status |-> "", Direction |-> "", currency |-> "", late |-> FALSE]

\* no remote ledger is being paged through
FetchIdle ==
  /\ remote_ledger = <<>>
  /\ remote_page_size = TRANSACTION_FETCH_LIMIT

\* the importer is not running
WiseIdle ==
  /\ processed = 0
  /\ import_state = {}
  /\ state_file = [exists |-> FALSE, ids |-> {}, writes |-> 0]
  /\ cache = {}
  /\ remote_accounts = <<>>
  /\ row = NoRow

Call(op, arg, ok) == [op |-> op, arg |-> arg, ok |-> ok]

\* sys.exit / return from main
Exit(code) == pc' = "done" /\ exit_code' = code

Init ==
  /\ pc = "load"
  /\ dry_run \in BOOLEAN
  /\ accounts_by_name = FALSE
  /\ account_created = FALSE
  /\ transactions = <<>>
  /\ duplicate_groups = <<>>
  /\ skipped_count = 0
  /\ earliest = <<>>
  /\ transactions_to_delete_ids = <<>>
  /\ gate = <<>>
  /\ line_read = ""
  /\ next_delete = 1
  /\ deleted_count = 0
  /\ failed_count = 0
  /\ calls = <<>>
  /\ exit_code = -1
  /\ FetchIdle
  /\ WiseIdle

\* ------------------------------------------------------------------------
\* Account setup
\* ------------------------------------------------------------------------
\* Accounts.__init__ / _load_existing_accounts: one listing call; a failure
\* of the call ends the process through die()
LoadExistingAccounts ==
  /\ pc = "load"
  /\ \E res \in {"listed", "not_listed", "raises"} :
       /\ calls' = Append(calls, Call("get_check_accounts", 0, res # "raises"))
       /\ IF res = "raises"
          THEN Exit(1) /\ UNCHANGED accounts_by_name
          ELSE /\ pc' = "resolve"
               /\ accounts_by_name' = (res = "listed")
               /\ UNCHANGED exit_code
  /\ UNCHANGED <<line_read, dry_run, account_created, transactions,
                 duplicate_groups, skipped_count, earliest,
                 transactions_to_delete_ids, gate, next_delete,
                 deleted_count, failed_count, fetch_vars, wise_vars>>

\* the calls get_or_create_account_id issues when the name is not cached,
\* and how it ends: second is the by-name lookup, made is the creation
ResolveCalls(second, made) ==
  <<Call("get_check_accounts", 0, second # "raises")>> \o
  (IF second = "not_found" /\ ~dry_run
   THEN <<Call("create_check_account", 0, made = "created")>>
   ELSE <<>>)

\* Accounts.get_or_create_account_id, as main calls it
GetOrCreateAccountId ==
  /\ pc = "resolve"
  /\ IF accounts_by_name
     THEN /\ pc' = "fetch"
          /\ UNCHANGED <<accounts_by_name, account_created, calls, exit_code>>
     ELSE \E second \in {"found", "not_found", "raises"},
             made \in {"created", "rejected", "raises"} :
            /\ calls' = calls \o ResolveCalls(second, made)
            /\ IF second = "found"
               THEN /\ pc' = "fetch"
                    /\ accounts_by_name' = TRUE
                    /\ UNCHANGED <<account_created, exit_code>>
               ELSE IF second = "not_found" /\ ~dry_run /\ made = "created"
               THEN /\ pc' = "fetch"
                    /\ accounts_by_name' = TRUE
                    /\ account_created' = TRUE
                    /\ UNCHANGED exit_code
               ELSE /\ Exit(1)
                    /\ UNCHANGED <<accounts_by_name, account_created>>
  /\ UNCHANGED <<line_read, dry_run, transactions, duplicate_groups,
                 skipped_count, earliest, transactions_to_delete_ids, gate,
                 next_delete, deleted_count, failed_count, fetch_vars,
                 wise_vars>>

\* ------------------------------------------------------------------------
\* Fetch and analysis
\* ------------------------------------------------------------------------
\* get_all_account_transactions and the empty check after it.  An account
\* created by this run holds no transactions.  A falsy response ends the
\* loop; an exception of the call is not caught.
FetchTransactions ==
  /\ pc = "fetch"
  /\ \E res \in {"ok", "none", "raises"},
        n \in (IF account_created THEN {0} ELSE 0..MaxTx),
        pageSize \in PageSizes :
     \E f \in [1..n -> LedgerBodies] :
       LET ledger == LedgerOf(f, n)
           r == IF res = "ok" THEN get_all_account_transactions(ledger, pageSize)
                ELSE [txs |-> <<>>, calls |-> 1]
       IN  /\ calls' = calls \o [k \in 1..r.calls |-> Call("get_transactions", 0, res = "ok")]
           /\ transactions' = r.txs
           /\ IF res = "raises" THEN Exit(1)
              ELSE IF r.txs = <<>> THEN Exit(0)
              ELSE pc' = "find" /\ UNCHANGED exit_code
  /\ UNCHANGED <<line_read, dry_run, accounts_by_name, account_created,
                 duplicate_groups, skipped_count, earliest,
                 transactions_to_delete_ids, gate, next_delete,
                 deleted_count, failed_count, fetch_vars, wise_vars>>

\* duplicate_groups = find_duplicate_transactions(transactions)
FindDuplicateTransactions ==
  /\ pc = "find"
  /\ LET r == find_duplicate_transactions(transactions)
     IN  /\ duplicate_groups' = r.groups
         /\ skipped_count' = r.skipped
  /\ pc' = "classify"
  /\ UNCHANGED <<line_read, dry_run, accounts_by_name, account_created,
                 transactions, earliest, transactions_to_delete_ids, gate,
                 next_delete, deleted_count, failed_count, calls, exit_code,
                 fetch_vars, wise_vars>>

\* ------------------------------------------------------------------------
\* Classification and the first decision of the gate
\* ------------------------------------------------------------------------
\* the loop over the groups that fills transactions_to_delete_ids
Plan == PlanLoop(transactions, duplicate_groups, Len(duplicate_groups))

\* a comparison of the loop over the groups raises
PlanRaises ==
  \E g \in 1..Len(duplicate_groups) :
    GroupRaises(transactions, duplicate_groups[g].txs)

ClassifyGroups ==
  /\ pc = "classify"
  /\ ~PlanRaises
  /\ earliest' = Plan.earliest
  /\ transactions_to_delete_ids' = Plan.ids

\* the TypeError of a comparison leaves main: traceback, status 1
ClassificationError ==
  /\ pc = "classify"
  /\ PlanRaises
  /\ Exit(1)
  /\ UNCHANGED <<line_read, dry_run, accounts_by_name, account_created,
                 transactions, duplicate_groups, skipped_count, earliest,
                 transactions_to_delete_ids, gate, next_delete,
                 deleted_count, failed_count, calls, fetch_vars, wise_vars>>

\* variant: an empty plan is taken to the confirmation prompt
NothingToDeletePrompts ==
  /\ ClassifyGroups
  /\ Plan.ids = <<>>
  /\ gate' = <<"PLANNED", "AWAITING_CONFIRMATION">>
  /\ pc' = "confirm"
  /\ UNCHANGED <<line_read, dry_run, accounts_by_name, account_created,
                 transactions, duplicate_groups, skipped_count, next_delete,
                 deleted_count, failed_count, calls, exit_code, fetch_vars,
                 wise_vars>>

\* the plan is empty: "No transactions marked for deletion."
NothingToDelete ==
  /\ ClassifyGroups
  /\ Plan.ids = <<>>
  /\ gate' = <<"PLANNED", "DONE">>
  /\ Exit(0)
  /\ UNCHANGED <<line_read, dry_run, accounts_by_name, account_created,
                 transactions, duplicate_groups, skipped_count, next_delete,
                 deleted_count, failed_count, calls, fetch_vars, wise_vars>>

\* "DRY RUN: No actual deletions will occur."
DryRunReport ==
  /\ ClassifyGroups
  /\ Plan.ids # <<>>
  /\ dry_run
  /\ gate' = <<"PLANNED", "DRY_RUN_REPORTED", "DONE">>
  /\ Exit(0)
  /\ UNCHANGED <<line_read, dry_run, accounts_by_name, account_created,
                 transactions, duplicate_groups, skipped_count, next_delete,
                 deleted_count, failed_count, calls, fetch_vars, wise_vars>>

\* variant: the prompt is reached in a dry run as well
BeginConfirmationInDryRun ==
  /\ ClassifyGroups
  /\ Plan.ids # <<>>
  /\ gate' = <<"PLANNED", "AWAITING_CONFIRMATION">>
  /\ pc' = "confirm"
  /\ UNCHANGED <<line_read, dry_run, accounts_by_name, account_created,
                 transactions, duplicate_groups, skipped_count, next_delete,
                 deleted_count, failed_count, calls, exit_code, fetch_vars,
                 wise_vars>>

\* main reaches the call of ask_for_confirmation
BeginConfirmation ==
  /\ ClassifyGroups
  /\ Plan.ids # <<>>
  /\ ~dry_run
  /\ gate' = <<"PLANNED", "AWAITING_CONFIRMATION">>
  /\ pc' = "confirm"
  /\ UNCHANGED <<line_read, dry_run, accounts_by_name, account_created,
                 transactions, duplicate_groups, skipped_count, next_delete,
                 deleted_count, failed_count, calls, exit_code, fetch_vars,
                 wise_vars>>

\* ------------------------------------------------------------------------
\* Confirmation and deletion
\* ------------------------------------------------------------------------
\* one pass of the loop of ask_for_confirmation on a line out of lines, and
\* what main does with the answer
ReadAnswer(lines) ==
  /\ pc = "confirm"
  /\ \E line \in lines :
       /\ line_read' = line
       /\ CASE Answer(line) = "yes" ->
                 /\ gate' = gate \o <<"CONFIRMED", "EXECUTING">>
                 /\ pc' = "executing"
                 /\ UNCHANGED exit_code
            [] Answer(line) = "no" ->
                 /\ gate' = gate \o <<"DECLINED", "DONE">>
                 /\ Exit(0)
            [] OTHER ->
                 UNCHANGED <<gate, pc, exit_code>>
  /\ UNCHANGED <<dry_run, accounts_by_name, account_created, transactions,
                 duplicate_groups, skipped_count, earliest,
                 transactions_to_delete_ids, next_delete, deleted_count,
                 failed_count, calls, fetch_vars, wise_vars>>

AskForConfirmation == ReadAnswer(Lines)

\* the prompt with every kind of line
AskForConfirmationAnyLine == ReadAnswer(PromptLines)

\* variant: the first failing call ends the loop
DeleteTransactionAbort ==
  /\ pc = "executing"
  /\ next_delete <= Len(transactions_to_delete_ids)
  /\ \E ok \in BOOLEAN :
       /\ calls' = Append(calls, Call("delete_check_account_transaction",
                                      transactions_to_delete_ids[next_delete], ok))
       /\ deleted_count' = IF ok THEN deleted_count + 1 ELSE deleted_count
       /\ failed_count' = IF ok THEN failed_count ELSE failed_count + 1
       /\ next_delete' = IF ok THEN next_delete + 1
                         ELSE Len(transactions_to_delete_ids) + 1
  /\ UNCHANGED <<line_read, pc, dry_run, accounts_by_name, account_created,
                 transactions, duplicate_groups, skipped_count, earliest,
                 transactions_to_delete_ids, gate, exit_code, fetch_vars,
                 wise_vars>>

\* one pass of the deletion loop: the call returns or raises
DeleteTransaction ==
  /\ pc = "executing"
  /\ next_delete <= Len(transactions_to_delete_ids)
  /\ \E ok \in BOOLEAN :
       /\ calls' = Append(calls, Call("delete_check_account_transaction",
                                      transactions_to_delete_ids[next_delete], ok))
       /\ deleted_count' = IF ok THEN deleted_count + 1 ELSE deleted_count
       /\ failed_count' = IF ok THEN failed_count ELSE failed_count + 1
  /\ next_delete' = next_delete + 1
  /\ UNCHANGED <<line_read, pc, dry_run, accounts_by_name, account_created,
                 transactions, duplicate_groups, skipped_count, earliest,
                 transactions_to_delete_ids, gate, exit_code, fetch_vars,
                 wise_vars>>

\* "Deletion Summary"
DeletionSummary ==
  /\ pc = "executing"
  /\ next_delete > Len(transactions_to_delete_ids)
  /\ gate' = Append(gate, "DONE")
  /\ Exit(0)
  /\ UNCHANGED <<line_read, dry_run, accounts_by_name, account_created,
                 transactions, duplicate_groups, skipped_count, earliest,
                 transactions_to_delete_ids, next_delete, deleted_count,
                 failed_count, calls, fetch_vars, wise_vars>>

Next ==
  \/ LoadExistingAccounts
  \/ GetOrCreateAccountId
  \/ FetchTransactions
  \/ FindDuplicateTransactions
  \/ NothingToDelete
  \/ DryRunReport
  \/ BeginConfirmation
  \/ AskForConfirmation
  \/ DeleteTransaction
  \/ DeletionSummary

Spec == Init /\ [][Next]_vars

\* ------------------------------------------------------------------------
\* The grouping function on its own
\* ------------------------------------------------------------------------
\* main() has set up the account and fetched a non-empty list
InitGroup ==
  /\ pc = "find"
  /\ dry_run = FALSE
  /\ accounts_by_name = TRUE
  /\ account_created = FALSE
  /\ \E n \in 1..MaxGroupTx, v \in 1..2 :
       \E f \in [1..n -> GroupBodies] :
         transactions = GroupListOf(f, v, n)
  /\ duplicate_groups = <<>>
  /\ skipped_count = 0
  /\ earliest = <<>>
  /\ transactions_to_delete_ids = <<>>
  /\ gate = <<>>
  /\ line_read = ""
  /\ next_delete = 1
  /\ deleted_count = 0
  /\ failed_count = 0
  /\ calls = <<Call("get_check_accounts", 0, TRUE), Call("get_transactions", 0, TRUE)>>
  /\ exit_code = -1
  /\ FetchIdle
  /\ WiseIdle

NextGroup == FindDuplicateTransactions

SpecGroup == InitGroup /\ [][NextGroup]_vars

\* ------------------------------------------------------------------------
\* Classification of records with missing fields
\* ------------------------------------------------------------------------
\* records whose creation timestamp or purpose the remote left out
SparseBodies ==
  [entry_date : {IsoDate(1, 0)},
   amount : {AmountText("-42.00"), AmountText("9.5")},
   create : {UNSET} \cup CreateTimes,
   paymt_purpose : {NonePurpose, RentPurpose}]

\* main() has set up the account and fetched a non-empty list
InitMissing ==
  /\ pc = "find"
  /\ dry_run \in BOOLEAN
  /\ accounts_by_name = TRUE
  /\ account_created = FALSE
  /\ \E n \in 1..MaxTx :
       \E f \in [1..n -> SparseBodies] :
         transactions = LedgerOf(f, n)
  /\ duplicate_groups = <<>>
  /\ skipped_count = 0
  /\ earliest = <<>>
  /\ transactions_to_delete_ids = <<>>
  /\ gate = <<>>
  /\ line_read = ""
  /\ next_delete = 1
  /\ deleted_count = 0
  /\ failed_count = 0
  /\ calls = <<Call("get_check_accounts", 0, TRUE), Call("get_transactions", 0, TRUE)>>
  /\ exit_code = -1
  /\ FetchIdle
  /\ WiseIdle

NextMissing ==
  \/ FindDuplicateTransactions
  \/ ClassificationError
  \/ NothingToDelete
  \/ DryRunReport
  \/ BeginConfirmation

SpecMissing == InitMissing /\ [][NextMissing]_vars

\* ------------------------------------------------------------------------
\* Planning and execution over several groups
\* ------------------------------------------------------------------------
\* records of two keys, so that a list holds two groups side by side
OrderBodies ==
  [entry_date : {IsoDate(1, 0)},
   amount : {AmountText("-42.00"), AmountText("9.5")},
   create : CreateTimes,
   paymt_purpose : {RentPurpose}]
    \cup [entry_date : {IsoDate(1, 0)},
          amount : {AmountText("-42.00"), AmountText("9.5")},
          create : {2},
          paymt_purpose : {CardPurpose}]

\* main() has set up the account and fetched a non-empty list, no dry run
InitOrder ==
  /\ pc = "find"
  /\ dry_run = FALSE
  /\ accounts_by_name = TRUE
  /\ account_created = FALSE
  /\ \E n \in 1..MaxOrderTx :
       \E f \in [1..n -> OrderBodies] :
         transactions = LedgerOf(f, n)
  /\ duplicate_groups = <<>>
  /\ skipped_count = 0
  /\ earliest = <<>>
  /\ transactions_to_delete_ids = <<>>
  /\ gate = <<>>
  /\ line_read = ""
  /\ next_delete = 1
  /\ deleted_count = 0
  /\ failed_count = 0
  /\ calls = <<Call("get_check_accounts", 0, TRUE), Call("get_transactions", 0, TRUE)>>
  /\ exit_code = -1
  /\ FetchIdle
  /\ WiseIdle

NextOrder ==
  \/ FindDuplicateTransactions
  \/ NothingToDelete
  \/ BeginConfirmation
  \/ AskForConfirmation
  \/ DeleteTransaction
  \/ DeletionSummary

SpecOrder == InitOrder /\ [][NextOrder]_vars

\* ------------------------------------------------------------------------
\* The confirmation prompt on its own
\* ------------------------------------------------------------------------
NextPrompt ==
  \/ FindDuplicateTransactions
  \/ NothingToDelete
  \/ BeginConfirmation
  \/ AskForConfirmationAnyLine

SpecPrompt == InitOrder /\ [][NextPrompt]_vars

\* ------------------------------------------------------------------------
\* The paginated fetch on its own
\* ------------------------------------------------------------------------
\* a remote account with n transactions, told apart by their ids
RemoteLedger(n) ==
  [i \in 1..n |-> Tx(i, IsoDate(1, 0), AmountText("9.5"), 1, RentPurpose)]

\* page sizes a remote may apply to a call that names no limit: half of,
\* exactly, and twice the limit the loop compares with
RemotePageSizes ==
  {TRANSACTION_FETCH_LIMIT \div 2, TRANSACTION_FETCH_LIMIT, 2 * TRANSACTION_FETCH_LIMIT}

\* main() has set up the account; the remote answers every call
InitFetch ==
  /\ pc = "fetch"
  /\ dry_run = FALSE
  /\ accounts_by_name = TRUE
  /\ account_created = FALSE
  /\ transactions = <<>>
  /\ duplicate_groups = <<>>
  /\ skipped_count = 0
  /\ earliest = <<>>
  /\ transactions_to_delete_ids = <<>>
  /\ gate = <<>>
  /\ line_read = ""
  /\ next_delete = 1
  /\ deleted_count = 0
  /\ failed_count = 0
  /\ calls = <<Call("get_check_accounts", 0, TRUE)>>
  /\ exit_code = -1
  /\ \E n \in 0..MaxLedgerLen : remote_ledger = RemoteLedger(n)
  /\ remote_page_size \in RemotePageSizes
  /\ WiseIdle

\* get_all_account_transactions over the remote ledger and the empty check
\* of main after it
FetchRemoteLedger ==
  /\ pc = "fetch"
  /\ LET r == get_all_account_transactions(remote_ledger, remote_page_size)
     IN  /\ calls' = calls \o [k \in 1..r.calls |-> Call("get_transactions", 0, TRUE)]
         /\ transactions' = r.txs
         /\ IF r.txs = <<>> THEN Exit(0)
            ELSE pc' = "find" /\ UNCHANGED exit_code
  /\ UNCHANGED <<line_read, dry_run, accounts_by_name, account_created,
                 duplicate_groups, skipped_count, earliest,
                 transactions_to_delete_ids, gate, next_delete,
                 deleted_count, failed_count, fetch_vars, wise_vars>>

NextFetch == FetchRemoteLedger

SpecFetch == InitFetch /\ [][NextFetch]_vars

\* ------------------------------------------------------------------------
\* The Wise importer: Accounts
\* ------------------------------------------------------------------------
Currencies == {"EUR", "USD"}

\* self.accounts after the add_account calls: currency -> account number
accounts(currency) == IF currency = "EUR" THEN "BE00" ELSE "US00"

\* f"Wise ({currency}, {account_id})"
AccountName(currency) == <<"Wise", currency, accounts(currency)>>

\* the id of the first listed account with the name, 0 when none is listed;
\* the remote accounts of the model are no registers
ListedId(remote, name) ==
  IF \E k \in 1..Len(remote) : remote[k] = name
  THEN CHOOSE k \in 1..Len(remote) :
         remote[k] = name /\ \A j \in 1..(k - 1) : remote[j] # name
  ELSE 0

\* self.cache[currency], 0 when the currency is not cached
Cached(cch, currency) ==
  IF \E p \in cch : p[1] = currency
  THEN (CHOOSE p \in cch : p[1] = currency)[2]
  ELSE 0

\* Accounts.get_or_create_account: listing and creating are what the two
\* remote calls answer ("ok", or "none" for a None response). The result
\* holds the returned id, the calls made, and the cache and remote accounts
\* afterwards; died is the die() after a failed creation.
get_or_create_account(cch, remote, currency, listing, creating) ==
  LET name     == AccountName(currency)
      listCall == Call("get_check_accounts", <<>>, listing = "ok")
      listed   == IF listing = "ok" THEN ListedId(remote, name) ELSE 0
      newId    == Len(remote) + 1
  IN  IF Cached(cch, currency) # 0
      THEN [id |-> Cached(cch, currency), made |-> <<>>, cache |-> cch,
            remote |-> remote, died |-> FALSE]
      ELSE IF listed # 0
      THEN [id |-> listed, made |-> <<listCall>>, cache |-> cch,
            remote |-> remote, died |-> FALSE]
      ELSE IF creating = "ok"
      THEN [id |-> newId,
            made |-> <<listCall, Call("create_check_account", name, TRUE)>>,
            cache |-> cch \cup {<<currency, newId>>},
            remote |-> Append(remote, name), died |-> FALSE]
      ELSE [id |-> 0,
            made |-> <<listCall, Call("create_check_account", name, FALSE)>>,
            cache |-> cch, remote |-> remote, died |-> TRUE]

\* ------------------------------------------------------------------------
\* The Wise importer: import_record and the loop of main
\* ------------------------------------------------------------------------
RecordIds == {"TRANSFER-1", "CARD_TRANSACTION-2", "CARD-2"}

\* record_id after the str.replace calls over ALIASES
replace_aliases(record_id) ==
  IF record_id = "CARD_TRANSACTION-2" THEN "CARD-2" ELSE record_id

\* the columns of a CSV record that decide what import_record does; late
\* stands for "Created on" being after "Finished on"
Records ==
  [ID : RecordIds,
   Status : {"COMPLETED", "REFUNDED"},
   Direction : {"IN", "OUT", "NEUTRAL"},
   currency : Currencies,
   late : BOOLEAN]

\* variant: the transaction is sent in a dry run as well
CreatesTransactionAlways(dry) == TRUE

\* the guard of create_transaction.sync in import_record
CreatesTransaction(dry) == ~dry

\* the guard of import_state_file.write_text in main
WritesState(dry) == ~dry

\* main after import_record returned: the state file is rewritten
WriteState(ids) ==
  state_file' = IF WritesState(dry_run)
                THEN [exists |-> TRUE, ids |-> ids, writes |-> state_file.writes + 1]
                ELSE state_file

\* main has parsed its arguments, registered the accounts and loaded the
\* import-state file when there is one
InitWise ==
  /\ pc = "import"
  /\ dry_run \in BOOLEAN
  /\ accounts_by_name = FALSE
  /\ account_created = FALSE
  /\ transactions = <<>>
  /\ duplicate_groups = <<>>
  /\ skipped_count = 0
  /\ earliest = <<>>
  /\ transactions_to_delete_ids = <<>>
  /\ gate = <<>>
  /\ line_read = ""
  /\ next_delete = 1
  /\ deleted_count = 0
  /\ failed_count = 0
  /\ calls = <<>>
  /\ exit_code = -1
  /\ FetchIdle
  /\ processed = 0
  /\ state_file \in {[exists |-> e, ids |-> {}, writes |-> 0] : e \in BOOLEAN}
  /\ import_state = state_file.ids
  /\ cache = {}
  /\ remote_accounts \in {<<>>, <<AccountName("EUR")>>, <<AccountName("USD")>>,
                           <<AccountName("USD"), AccountName("EUR")>>}
  /\ row = NoRow

\* variant: an internal transfer is imported like any other record
ReturnsEarlyRefundedOnly(record) == record.Status = "REFUNDED"

\* the two early returns of import_record: refunded records and internal
\* transfers
ReturnsEarly(record) ==
  record.Status = "REFUNDED" \/ record.Direction = "NEUTRAL"

\* variant: the marker set is never consulted
AlreadyImportedNever(ids, transaction_id) == FALSE

\* `if transaction_id in import_state`
AlreadyImported(ids, transaction_id) == transaction_id \in ids

\* import_record on one record, then the write of the state file in main;
\* listing, creating and sending are what the remote calls answer
ImportPass(record, listing, creating, sending) ==
  LET r == get_or_create_account(cache, remote_accounts, record.currency,
                                 listing, creating)
      transaction_id == <<record.currency, r.id, replace_aliases(record.ID)>>
      sent == Call("create_transaction",
                   [id |-> transaction_id, late |-> record.late],
                   sending = "ok")
  IN  IF ReturnsEarly(record)
      THEN /\ WriteState(import_state)
           /\ UNCHANGED <<pc, exit_code, import_state, cache,
                          remote_accounts, calls>>
      ELSE IF r.died
      THEN /\ calls' = calls \o r.made
           /\ Exit(1)
           /\ UNCHANGED <<import_state, state_file, cache, remote_accounts>>
      ELSE /\ cache' = r.cache
           /\ remote_accounts' = r.remote
           /\ IF AlreadyImported(import_state, transaction_id)
              THEN /\ calls' = calls \o r.made
                   /\ WriteState(import_state)
                   /\ UNCHANGED <<pc, exit_code, import_state>>
              ELSE /\ import_state' = import_state \cup {transaction_id}
                   /\ IF ~CreatesTransaction(dry_run)
                      THEN /\ calls' = calls \o r.made
                           /\ WriteState(import_state')
                           /\ UNCHANGED <<pc, exit_code>>
                      ELSE /\ calls' = (calls \o r.made) \o <<sent>>
                           /\ IF sending = "raises"
                              THEN Exit(1) /\ UNCHANGED state_file
                              ELSE /\ WriteState(import_state')
                                   /\ UNCHANGED <<pc, exit_code>>

\* one pass of `for record in records`: import_record, then the write of the
\* state file
ImportRecord ==
  /\ pc = "import"
  /\ row = NoRow
  /\ processed < MaxRecords
  /\ processed' = processed + 1
  /\ \E record \in Records, listing \in {"ok", "none"},
        creating \in {"ok", "none"}, sending \in {"ok", "raises"} :
       ImportPass(record, listing, creating, sending)
  /\ UNCHANGED <<line_read, dry_run, accounts_by_name, account_created,
                 transactions, duplicate_groups, skipped_count, earliest,
                 transactions_to_delete_ids, gate, next_delete,
                 deleted_count, failed_count, fetch_vars, row>>

\* the CSV reader is exhausted: main returns
EndOfRecords ==
  /\ pc = "import"
  /\ row = NoRow
  /\ Exit(0)
  /\ UNCHANGED <<line_read, dry_run, accounts_by_name, account_created,
                 transactions, duplicate_groups, skipped_count, earliest,
                 transactions_to_delete_ids, gate, next_delete,
                 deleted_count, failed_count, calls, fetch_vars, wise_vars>>

NextWise ==
  \/ ImportRecord
  \/ EndOfRecords

SpecWise == InitWise /\ [][NextWise]_vars

\* ------------------------------------------------------------------------
\* The Wise importer record by record, over several runs
\* ------------------------------------------------------------------------
\* the first run starts without a state file
InitRuns ==
  /\ pc = "import"
  /\ dry_run \in BOOLEAN
  /\ accounts_by_name = FALSE
  /\ account_created = FALSE
  /\ transactions = <<>>
  /\ duplicate_groups = <<>>
  /\ skipped_count = 0
  /\ earliest = <<>>
  /\ transactions_to_delete_ids = <<>>
  /\ gate = <<>>
  /\ line_read = ""
  /\ next_delete = 1
  /\ deleted_count = 0
  /\ failed_count = 0
  /\ calls = <<>>
  /\ exit_code = -1
  /\ FetchIdle
  /\ processed = 0
  /\ state_file = [exists |-> FALSE, ids |-> {}, writes |-> 0]
  /\ import_state = {}
  /\ cache = {}
  /\ remote_accounts \in {<<>>, <<AccountName("EUR")>>}
  /\ row = NoRow

\* `for record in records` yields the next record of the CSV file
ReadRow ==
  /\ pc = "import"
  /\ row = NoRow
  /\ processed < MaxRunRecords
  /\ processed' = processed + 1
  /\ row' \in Records
  /\ UNCHANGED <<pc, line_read, dry_run, accounts_by_name, account_created,
                 transactions, duplicate_groups, skipped_count, earliest,
                 transactions_to_delete_ids, gate, next_delete,
                 deleted_count, failed_count, calls, exit_code, fetch_vars,
                 import_state, state_file, cache, remote_accounts>>

\* the body of the loop on the record that was read
ImportRow ==
  /\ pc = "import"
  /\ row # NoRow
  /\ row' = NoRow
  /\ \E listing \in {"ok", "none"}, creating \in {"ok", "none"},
        sending \in {"ok", "raises"} :
       ImportPass(row, listing, creating, sending)
  /\ UNCHANGED <<line_read, dry_run, accounts_by_name, account_created,
                 transactions, duplicate_groups, skipped_count, earliest,
                 transactions_to_delete_ids, gate, next_delete,
                 deleted_count, failed_count, fetch_vars, processed>>

\* the importer is started again, with the same arguments and the state
\* file the earlier runs left: main loads it when it exists
StartRun ==
  /\ pc = "done"
  /\ pc' = "import"
  /\ exit_code' = -1
  /\ import_state' = IF state_file.exists THEN state_file.ids ELSE {}
  /\ cache' = {}
  /\ UNCHANGED <<line_read, dry_run, accounts_by_name, account_created,
                 transactions, duplicate_groups, skipped_count, earliest,
                 transactions_to_delete_ids, gate, next_delete,
                 deleted_count, failed_count, calls, fetch_vars, processed,
                 state_file, remote_accounts, row>>

NextRuns ==
  \/ ReadRow
  \/ ImportRow
  \/ EndOfRecords
  \/ StartRun

SpecRuns == InitRuns /\ [][NextRuns]_vars

\* ------------------------------------------------------------------------
\* Vocabulary of the properties
\* ------------------------------------------------------------------------
\* the classification loop has run
Planned == gate # <<>>

InGate(st) == \E k \in 1..Len(gate) : gate[k] = st

Groups == 1..Len(duplicate_groups)

Members(g) == {duplicate_groups[g].txs[k] : k \in 1..Len(duplicate_groups[g].txs)}

PlanIds == {transactions_to_delete_ids[k] : k \in 1..Len(transactions_to_delete_ids)}

InPlan(i) == transactions[i].id \in PlanIds

DeleteCalls == SelectSeq(calls, LAMBDA c : c.op = "delete_check_account_transaction")

CreateCalls == SelectSeq(calls, LAMBDA c : c.op = "create_check_account")

IsPrefix(a, b) == Len(a) <= Len(b) /\ \A k \in 1..Len(a) : a[k] = b[k]

\* n characters of class cls from position from
AllIn(s, from, n, cls) ==
  /\ from + n - 1 <= Len(s)
  /\ \A k \in from..(from + n - 1) : s[k] \in cls

\* a card-transaction description followed by a decimal amount and a
\* three-letter currency code in parentheses
CardSettlement(str) ==
  LET s == Chars(str)
  IN  \E p \in 1..Len(s) :
        /\ LitAt(s, p, CardLiteral)
        /\ \E n1 \in 1..Len(s) :
             LET dot == p + Len(CardLiteral) + n1
             IN  /\ AllIn(s, dot - n1, n1, Digits)
                 /\ LitAt(s, dot, <<".">>)
                 /\ \E n2 \in 1..Len(s) :
                      /\ AllIn(s, dot + 1, n2, Digits)
                      /\ LitAt(s, dot + 1 + n2, <<" ", "(">>)
                      /\ AllIn(s, dot + n2 + 3, 3, Upper)
                      /\ LitAt(s, dot + n2 + 6, <<")">>)

HasCardPurpose(i) ==
  /\ transactions[i].paymt_purpose.kind = "str"
  /\ CardSettlement(transactions[i].paymt_purpose.text)

SamePurpose(i, j) == transactions[i].paymt_purpose = transactions[j].paymt_purpose

\* the decimal amounts of the model's amount texts, in hundredths
Hundredths(str) ==
  CASE str = "1.0" -> 100 [] str = "1.00" -> 100 [] str = "2.5" -> 250
    [] str = "-42.00" -> 0 - 4200 [] str = "9.5" -> 950

Parsable(i) ==
  /\ transactions[i].entry_date.kind = "iso"
  /\ transactions[i].amount.kind = "text"
  /\ transactions[i].amount.text \in {"1.0", "1.00", "2.5", "-42.00", "9.5"}

\* same calendar date and same amount
SameKey(i, j) ==
  /\ Parsable(i) /\ Parsable(j)
  /\ transactions[i].entry_date.day = transactions[j].entry_date.day
  /\ Hundredths(transactions[i].amount.text) = Hundredths(transactions[j].amount.text)

Positions == 1..Len(transactions)

\* the line starts, after blanks, with y or Y
Affirmative(line) ==
  \E k \in 1..Len(Chars(line)) :
    /\ Chars(line)[k] \in {"y", "Y"}
    /\ \A j \in 1..(k - 1) : Chars(line)[j] = " "

\* ------------------------------------------------------------------------
\* Properties
\* ------------------------------------------------------------------------
\* C1: every id in the deletion plan is the id of a member of a (date,
\* amount) group with at least 2 members, and is not the id of that
\* group's canonical (earliest-created) record.
PlanSoundness ==
  Planned =>
    \A k \in 1..Len(transactions_to_delete_ids) :
      \E g \in Groups, i \in Positions :
        /\ transactions[i].id = transactions_to_delete_ids[k]
        /\ i \in Members(g)
        /\ \E j \in Positions : j # i /\ SameKey(i, j)
        /\ transactions[earliest[g]].id # transactions_to_delete_ids[k]

\* a run has planned the deletion of a record of a group
PlanSoundnessWitness ==
  /\ Planned
  /\ Len(transactions_to_delete_ids) >= 1
  /\ \E g \in Groups : Cardinality(Members(g)) = 3

\* C2: in a dry run no deletion call and no account-creation call is issued.
DryRunNoSideEffects ==
  dry_run => (DeleteCalls = <<>> /\ CreateCalls = <<>>)

\* a dry run with a non-empty plan has ended
DryRunWitness ==
  /\ dry_run
  /\ pc = "done"
  /\ transactions_to_delete_ids # <<>>
  /\ gate = <<"PLANNED", "DRY_RUN_REPORTED", "DONE">>

\* C3: once the plan is confirmed the ids are attempted in plan order, each
\* once, whatever calls fail; the counts are those of the calls that
\* returned and of the calls that raised; at the summary all were attempted.
DeletionIsolation ==
  InGate("EXECUTING") =>
    LET d == DeleteCalls
        N == Len(transactions_to_delete_ids)
    IN  /\ Len(d) = next_delete - 1
        /\ Len(d) <= N
        /\ \A k \in 1..Len(d) : d[k].arg = transactions_to_delete_ids[k]
        /\ deleted_count = Cardinality({k \in 1..Len(d) : d[k].ok})
        /\ failed_count = Cardinality({k \in 1..Len(d) : ~d[k].ok})
        /\ pc = "done" => (Len(d) = N /\ deleted_count = N - failed_count)

\* a batch of two has ended whose first deletion failed
DeletionIsolationWitness ==
  /\ pc = "done"
  /\ InGate("EXECUTING")
  /\ Len(transactions_to_delete_ids) = 2
  /\ Len(DeleteCalls) = 2
  /\ ~DeleteCalls[1].ok
  /\ DeleteCalls[2].ok
  /\ failed_count = 1
  /\ deleted_count = 1

\* the paths of the gate for a non-empty plan
GatePaths ==
  {<<"PLANNED", "DRY_RUN_REPORTED", "DONE">>,
   <<"PLANNED", "AWAITING_CONFIRMATION", "CONFIRMED", "EXECUTING", "DONE">>,
   <<"PLANNED", "AWAITING_CONFIRMATION", "DECLINED", "DONE">>}

\* C4: with a non-empty plan the gate follows one of its three paths; a
\* deletion call is issued only after an affirmative answer; after a
\* declining answer there is no deletion call and no creation call.
GateOrder ==
  /\ (Planned /\ transactions_to_delete_ids # <<>>) =>
       \E path \in GatePaths : IsPrefix(gate, path)
  /\ (Planned /\ transactions_to_delete_ids = <<>>) => gate = <<"PLANNED", "DONE">>
  /\ DeleteCalls # <<>> => (InGate("CONFIRMED") /\ Affirmative(line_read))
  /\ InGate("CONFIRMED") => Affirmative(line_read)
  /\ InGate("DECLINED") =>
       (~Affirmative(line_read) /\ DeleteCalls = <<>> /\ CreateCalls = <<>>)

\* a confirmed batch has run to the end
GateOrderWitness ==
  /\ gate = <<"PLANNED", "AWAITING_CONFIRMATION", "CONFIRMED", "EXECUTING", "DONE">>
  /\ Len(DeleteCalls) >= 1
  /\ line_read = " Yes"

\* C5: each group has one canonical record; it is a member with the least
\* creation time, and the first such member in input order.
CanonicalSelection ==
  Planned =>
    /\ Len(earliest) = Len(duplicate_groups)
    /\ \A g \in Groups :
         /\ earliest[g] \in Members(g)
         /\ \A m \in Members(g) :
              /\ transactions[earliest[g]].create <= transactions[m].create
              /\ transactions[m].create = transactions[earliest[g]].create
                   => earliest[g] <= m

\* a group whose least creation time is shared, its canonical record not
\* being the first member
CanonicalSelectionWitness ==
  /\ Planned
  /\ \E g \in Groups :
       \E m1, m2 \in Members(g) :
         /\ m1 < earliest[g] /\ earliest[g] < m2
         /\ transactions[m2].create = transactions[earliest[g]].create

\* C6 as stated: every member of a group other than the canonical record
\* with the canonical record's purpose is in the deletion plan.
ExactPurposeRule ==
  Planned =>
    \A g \in Groups : \A m \in Members(g) :
      (m # earliest[g] /\ SamePurpose(m, earliest[g])) => InPlan(m)

\* C7 as stated: a member other than the canonical record whose purpose
\* is a card settlement is in the deletion plan, whatever the canonical
\* record's purpose is.
CardSettlementRule ==
  Planned =>
    \A g \in Groups : \A m \in Members(g) :
      (m # earliest[g] /\ HasCardPurpose(m)) => InPlan(m)

CardPair(g, a, b) ==
  /\ Members(g) = {a, b}
  /\ a # b
  /\ HasCardPurpose(a)
  /\ ~HasCardPurpose(b)

GroupingPartition ==
  pc = "classify" =>
    /\ \A g \in Groups :
         LET txs == duplicate_groups[g].txs
         IN  /\ Len(txs) >= 2
             /\ \A k \in 1..(Len(txs) - 1) : txs[k] < txs[k + 1]
             /\ \A k \in 1..Len(txs) : txs[k] \in Positions
             /\ \A i, j \in Members(g) : SameKey(i, j)
    /\ \A g, h \in Groups : g # h => Members(g) \cap Members(h) = {}
    /\ \A i, j \in Positions :
         (i # j /\ SameKey(i, j)) =>
           \E g \in Groups : i \in Members(g) /\ j \in Members(g)

\* a group whose members differ in time of day and in the spelling of the
\* amount, next to a parsable record of another day
GroupingPartitionWitness ==
  /\ pc = "classify"
  /\ \E g \in Groups : \E i, j \in Members(g) :
       /\ transactions[i].entry_date.time # transactions[j].entry_date.time
       /\ transactions[i].amount.text # transactions[j].amount.text
       /\ transactions[i].paymt_purpose # transactions[j].paymt_purpose
       /\ \E k \in Positions \ Members(g) :
            /\ Parsable(k)
            /\ transactions[k].amount = transactions[i].amount
            /\ i < k /\ k < j

\* C11: a record whose entry_date or amount is missing or unparsable is in
\* no group and is counted as skipped exactly once, and the function returns
\* for every input: the skipped count plus the number of records that have a
\* (calendar date, amount) class is the length of the input.
SkippedAccounting ==
  pc = "classify" =>
    LET unparsable == {i \in Positions : ~Parsable(i)}
        classed    == {i \in Positions : \E j \in Positions : SameKey(i, j)}
    IN  /\ skipped_count = Cardinality(unparsable)
        /\ skipped_count + Cardinality(classed) = Len(transactions)
        /\ \A g \in Groups : Members(g) \cap unparsable = {}

\* a record with an unparsable amount between the two members of a group
SkippedAccountingWitness ==
  /\ pc = "classify"
  /\ skipped_count = 1
  /\ \E g \in Groups : \E i \in Positions \ Members(g) :
       /\ transactions[i].entry_date.kind = "iso"
       /\ transactions[i].amount = AmountText("x")
       /\ \E a, b \in Members(g) : a < i /\ i < b

\* C12: for every fetched list, including records whose creation timestamp
\* or purpose is missing, canonical selection and classification do not
\* raise: a run that has grouped its records ends only after the plan has
\* been made and the gate entered.
ClassificationNeverRaises ==
  pc = "done" => Planned /\ exit_code = 0

\* C13: an empty plan ends the run normally. When no group has two members
\* the plan is empty, and whenever the plan is empty (also because no member
\* passes classification) the run is over with status 0, the prompt was
\* never shown, no line was read and no deletion call was issued.
EmptyPlanTerminal ==
  /\ (Planned /\ Groups = {}) => transactions_to_delete_ids = <<>>
  /\ (Planned /\ transactions_to_delete_ids = <<>>) =>
       /\ pc = "done" /\ exit_code = 0
       /\ gate = <<"PLANNED", "DONE">>
       /\ line_read = ""
       /\ DeleteCalls = <<>>

\* a group of two records whose purposes differ: formed, nothing to delete
EmptyPlanTerminalWitness ==
  /\ Planned
  /\ transactions_to_delete_ids = <<>>
  /\ \E g \in Groups : \E i, j \in Members(g) :
       /\ transactions[i].create < transactions[j].create
       /\ ~SamePurpose(i, j)

\* the position of the record with the k-th id of the plan
PlanPosition(k) ==
  CHOOSE i \in Positions : transactions[i].id = transactions_to_delete_ids[k]

\* the group of a grouped position, and the first position of a group
GroupOf(i) == CHOOSE g \in Groups : i \in Members(g)

FirstMember(g) == CHOOSE m \in Members(g) : \A n \in Members(g) : m <= n

\* c is the first of the earliest created members of g
Canonical(g, c) ==
  /\ c \in Members(g)
  /\ \A m \in Members(g) :
       /\ transactions[c].create <= transactions[m].create
       /\ transactions[m].create = transactions[c].create => c <= m

\* what the fetched list alone says about position i: created after the
\* canonical record of its group, with a card description or its purpose
ExpectedInPlan(i) ==
  \E g \in Groups : \E c \in Members(g) :
    /\ i \in Members(g)
    /\ Canonical(g, c)
    /\ transactions[i].create > transactions[c].create
    /\ (HasCardPurpose(i) \/ SamePurpose(i, c))

\* C14: the plan is a function of the fetched list and is in discovery
\* order. Its ids are those of exactly the positions the list determines;
\* they stand group after group, the groups by the first appearance of their
\* key, and within a group in fetch order, so no id stands twice; the
\* deletion calls issued so far are the first ids of the plan, in its order.
PlanDeterminedInOrder ==
  Planned =>
    LET ids == transactions_to_delete_ids
        d   == DeleteCalls
    IN  /\ \A k \in 1..Len(ids) : \E i \in Positions : transactions[i].id = ids[k]
        /\ \A i \in Positions : InPlan(i) <=> ExpectedInPlan(i)
        /\ \A k, l \in 1..Len(ids) :
             k < l =>
               LET i == PlanPosition(k)
                   j == PlanPosition(l)
               IN  \/ GroupOf(i) = GroupOf(j) /\ i < j
                   \/ FirstMember(GroupOf(i)) < FirstMember(GroupOf(j))
        /\ Len(d) <= Len(ids)
        /\ \A k \in 1..Len(d) : d[k].arg = ids[k]

\* two interleaved groups: the plan is not in fetch order, and every id of
\* it has been passed to a deletion call
PlanDeterminedInOrderWitness ==
  /\ pc = "done"
  /\ Len(DeleteCalls) = Len(transactions_to_delete_ids)
  /\ \E k, l \in 1..Len(transactions_to_delete_ids) :
       /\ k < l
       /\ PlanPosition(k) > PlanPosition(l)
       /\ GroupOf(PlanPosition(k)) # GroupOf(PlanPosition(l))

\* the line is blank, or starts, after blanks, with n or N
Negative(line) ==
  \/ \A k \in 1..Len(Chars(line)) : Chars(line)[k] = " "
  \/ \E k \in 1..Len(Chars(line)) :
       /\ Chars(line)[k] \in {"n", "N"}
       /\ \A j \in 1..(k - 1) : Chars(line)[j] = " "

\* C15: every line read at the prompt is handled in one of three ways. A
\* line that starts, after trimming and lower-casing, with y is the only one
\* taken as yes; an empty line and a line starting with n are taken as no at
\* once; any other line makes the prompt ask again and changes nothing; and
\* once a yes or a no is returned no further line is read.
PromptContract ==
  [][ /\ pc = "confirm" =>
           /\ Affirmative(line_read') <=>
                (pc' = "executing" /\ gate' = gate \o <<"CONFIRMED", "EXECUTING">>)
           /\ Negative(line_read') <=>
                (pc' = "done" /\ exit_code' = 0 /\ gate' = gate \o <<"DECLINED", "DONE">>)
           /\ (~Affirmative(line_read') /\ ~Negative(line_read')) <=>
                (pc' = "confirm" /\ gate' = gate)
           /\ line_read' = "" => pc' = "done"
      /\ pc # "confirm" => line_read' = line_read ]_vars

\* the empty line was read and the run ended declined
PromptContractWitness ==
  /\ line_read = ""
  /\ InGate("DECLINED")
  /\ pc = "done"
  /\ DeleteCalls = <<>>

\* a get_transactions call that did not deliver a page
FailedFetch ==
  \E k \in 1..Len(calls) : calls[k].op = "get_transactions" /\ ~calls[k].ok

\* C16: a fetch that fails is told apart from an account without
\* transactions: a run in which a get_transactions call failed does not end
\* like a run over an empty account, with status 0, and goes on to no
\* analysis of what it got.
FetchFailureDistinguished ==
  FailedFetch => (pc = "done" /\ exit_code # 0 /\ ~Planned)

\* the calls of the importer that create an account under the name
AccountCreations(name) ==
  SelectSeq(calls, LAMBDA c : c.op = "create_check_account" /\ c.arg = name)

\* C17: account resolution is idempotent. All transaction ids made for a
\* currency carry one account id, at most one creation call is issued per
\* currency, and no account name stands twice among the remote accounts:
\* an account that exists under the generated name is not created again.
AccountResolutionIdempotent ==
  /\ \A t, u \in import_state : t[1] = u[1] => t[2] = u[2]
  /\ \A c \in Currencies : Len(AccountCreations(AccountName(c))) <= 1
  /\ \A j, k \in 1..Len(remote_accounts) :
       j # k => remote_accounts[j] # remote_accounts[k]

\* the run got past account setup: a transaction fetch was issued
FetchIssued == \E k \in 1..Len(calls) : calls[k].op = "get_transactions"

\* C18: the process ends with a non-zero status exactly when account setup
\* fails, and then no transaction fetch and no deletion call was issued;
\* every run that got past setup ends with status 0.
ExitStatusContract ==
  pc = "done" =>
    /\ (exit_code # 0) <=> ~FetchIssued
    /\ exit_code # 0 => DeleteCalls = <<>>

SentTransactions == SelectSeq(calls, LAMBDA c : c.op = "create_transaction")

\* C19: in a dry run the importer issues no create_transaction call and
\* never writes the import-state file, whatever records it reads.
ImporterDryRun ==
  dry_run =>
    /\ SentTransactions = <<>>
    /\ state_file.writes = 0
    /\ state_file.ids = {}

\* a dry run that read two records it would have imported, one of them
\* after creating the account of its currency
ImporterDryRunWitness ==
  /\ dry_run
  /\ pc = "done" /\ exit_code = 0
  /\ Cardinality(import_state) = 2
  /\ \E k \in 1..Len(calls) : calls[k].op = "create_check_account"

\* C20: for a remote account with any number of transactions and whatever
\* page size the remote applies, the fetch returns all of them, each once
\* and in remote order.
FetchComplete ==
  pc # "fetch" => transactions = remote_ledger

\* the record is one import_record goes on with
Importable(r) == r.Status # "REFUNDED" /\ r.Direction # "NEUTRAL"

\* the record id as it stands in a transaction id
AliasedId(id) ==
  CASE id = "TRANSFER-1" -> "TRANSFER-1"
    [] id = "CARD_TRANSACTION-2" -> "CARD-2"
    [] id = "CARD-2" -> "CARD-2"

\* an id of the import state is made of the currency and the id of r
Known(r) ==
  \E t \in import_state : t[1] = r.currency /\ t[3] = AliasedId(r.ID)

\* the calls a step adds to the log
NewCalls == {calls'[k] : k \in (Len(calls) + 1)..Len(calls')}

\* every id of the state file has had its create_transaction call
WrittenAfterCreate ==
  \A t \in state_file.ids :
    \E k \in 1..Len(SentTransactions) : SentTransactions[k].arg.id = t

\* C21 as stated: over the runs that share a state file, create_transaction
\* is issued at most once per transaction id, an id stands in the state
\* file only after its create call was issued, and a record whose id is in
\* the import state is skipped without any remote call.
MarkerAtMostOnce ==
  /\ [](/\ \A j, k \in 1..Len(SentTransactions) :
            j # k => SentTransactions[j].arg.id # SentTransactions[k].arg.id
        /\ WrittenAfterCreate)
  /\ [][(row # NoRow /\ Importable(row) /\ Known(row)
           /\ import_state' = import_state /\ pc' = "import")
          => calls' = calls]_vars

\* C21, amended: create_transaction is issued again for a transaction id
\* only after every earlier call for it raised, so at most one call per id
\* returns; an id stands in the state file only after its create call was
\* issued; and a step sends a transaction only for the record it has read
\* and only under an id that is not in the import state yet (the account
\* lookup of a skipped record may still call the remote).
MarkerContract ==
  /\ [](/\ \A j, k \in 1..Len(SentTransactions) :
            (j < k /\ SentTransactions[j].arg.id = SentTransactions[k].arg.id)
              => ~SentTransactions[j].ok
        /\ WrittenAfterCreate)
  /\ [][\A c \in NewCalls :
           c.op = "create_transaction" =>
             /\ row # NoRow /\ Importable(row)
             /\ c.arg.id \notin import_state
             /\ c.arg.id[1] = row.currency
             /\ c.arg.id[3] = AliasedId(row.ID)]_vars

\* two records were read with one state file: one transaction was sent and
\* written to the file, the other record was skipped after a second
\* account listing
MarkerContractWitness ==
  /\ ~dry_run
  /\ processed = 2 /\ row = NoRow /\ pc = "import"
  /\ Len(SentTransactions) = 1 /\ SentTransactions[1].ok
  /\ state_file.ids = {SentTransactions[1].arg.id}
  /\ state_file.writes = 2
  /\ Len(SelectSeq(calls, LAMBDA c : c.op = "get_check_accounts")) = 2
  /\ Known([ID |-> "CARD-2", Status |-> "COMPLETED", Direction |-> "OUT",
            currency |-> "EUR", late |-> FALSE])

\* C22: a record whose "Created on" is later than its "Finished on" is
\* skipped: the step that handles it sends no transaction.
LateRecordSkipped ==
  [][(row # NoRow /\ row.late) =>
       \A c \in NewCalls : c.op # "create_transaction"]_vars

\* C23: a record with Status REFUNDED or Direction NEUTRAL changes nothing:
\* the step that handles it issues no remote call at all, so no transaction
\* and no account is created, adds no id to the import state or to the
\* state file, and does not end the run.
RefundedNeutralFrame ==
  [][(row # NoRow /\ (row.Status = "REFUNDED" \/ row.Direction = "NEUTRAL")) =>
       /\ calls' = calls
       /\ remote_accounts' = remote_accounts
       /\ import_state' = import_state
       /\ state_file'.ids = state_file.ids
       /\ pc' = "import"]_vars

\* the first record of a run that is not a dry run has been handled without
\* any remote call: it was refunded or an internal transfer
RefundedNeutralFrameWitness ==
  /\ ~dry_run
  /\ processed = 1 /\ row = NoRow /\ pc = "import"
  /\ state_file.writes = 1
  /\ calls = <<>>
  /\ import_state = {}

====
